---- MODULE Spec2Model ----
(***************************************************************************)
(* Model of the help-center scraper: the hierarchy walker                  *)
(* (ZendeskApiScraper.scrapeAllArticles) driven by the command-line        *)
(* script, the slug generator and the whitespace normalisation that ends   *)
(* htmlToMarkdown.                                                         *)
(***************************************************************************)
EXTENDS Integers, Sequences, FiniteSets, TLC

\* ---------------------------------------------------------------- bounds
\* Most categories one categories.json answer lists.
MaxCats == 2
\* Most categories, sections and article summaries all listing answers of one
\* crawl hold together.
MaxNodes == 6
\* Largest maxArticles option handed to the constructor.
MaxCap == 1
\* Longest title handed to generateSlug (besides the two documented ones).
MaxTitleLen == 4
\* Longest text handed to the whitespace normalisation.
MaxTextLen == 7

\* ------------------------------------------------------ program constants
DefaultMaxArticles == 50
DefaultDelay == 1000
CliDelay == 1500
CliMaxArticles == 2

VARIABLES
    pc,             \* position of the command-line run / of scrapeAllArticles
    optMaxArticles, \* options.maxArticles as passed (0: absent or falsy)
    optDelay,       \* options.delay as passed (0: absent or falsy)
    maxArticles,    \* this.maxArticles
    delay,          \* this.delay
    nCats,          \* categories.length
    nSecs,          \* sections.length of the current category
    nArts,          \* articles.length of the current section
    ci, si, ai,     \* 1-based position of the current category/section/summary
    fullArticle,    \* the article fetchArticleContent returned, or NoArticle
    savedArticles,  \* the result sequence
    totalArticles,  \* the running total
    files,          \* output directory: filename -> content of the document
    indexFile,      \* README.md: whether written, and the filenames it lists
    exitCode,       \* -1 while the process runs
    log,            \* history: every request, delay and write, in order
    sectionListings,\* history: sections.json answers
    articleListings,\* history: articles.json answers
    visits,         \* history: finished article-loop iterations
    listed,         \* history: categories, sections and summaries listed so far
    fnPc,           \* position of a pure-function run
    title, slug,    \* generateSlug input / output
    text, markdown  \* whitespace normalisation input / output

crawlVars == <<pc, optMaxArticles, optDelay, maxArticles, delay, nCats, nSecs,
               nArts, ci, si, ai, fullArticle, savedArticles, totalArticles,
               files, indexFile, exitCode, log, sectionListings, articleListings, visits, listed>>
fnVars == <<fnPc, title, slug, text, markdown>>
vars == <<crawlVars, fnVars>>

\* ---------------------------------------------------------------- helpers
Min(a, b) == IF a < b THEN a ELSE b

Range(f) == {f[i] : i \in DOMAIN f}

SeqsUpTo(S, n) == UNION {[1..k -> S] : k \in 0..n}

NoPos == <<0, 0, 0>>

Event(op, pos, ok, ms) == [op |-> op, pos |-> pos, ok |-> ok, ms |-> ms]

NoArticle == [title |-> <<>>, pos |-> NoPos]

\* ------------------------------------------------------------ generateSlug
\* Texts are sequences of one-character strings.
UpperCase == <<"A","B","C","D","E","F","G","H","I","J","K","L","M",
               "N","O","P","Q","R","S","T","U","V","W","X","Y","Z">>
LowerCase == <<"a","b","c","d","e","f","g","h","i","j","k","l","m",
               "n","o","p","q","r","s","t","u","v","w","x","y","z">>
Digits == {"0","1","2","3","4","5","6","7","8","9"}

\* \s of the regular expressions, as far as the modelled alphabet goes.
IsSpace(c) == c \in {" ", "\t", "\n"}

ToLowerChar(c) ==
    IF \E i \in DOMAIN UpperCase : UpperCase[i] = c
    THEN LowerCase[CHOOSE i \in DOMAIN UpperCase : UpperCase[i] = c]
    ELSE c

\* .toLowerCase()
ToLowerCase(s) == [i \in 1..Len(s) |-> ToLowerChar(s[i])]

\* the class [a-z0-9\s-]
IsSlugChar(c) == c \in Range(LowerCase) \/ c \in Digits \/ IsSpace(c) \/ c = "-"

\* .replace(/[^a-z0-9\s-]/g, '')
DropSpecial(s) == SelectSeq(s, IsSlugChar)

\* Length of the longest prefix of s made of whitespace only.
RECURSIVE SpaceRun(_)
SpaceRun(s) == IF s # <<>> /\ IsSpace(Head(s)) THEN 1 + SpaceRun(Tail(s)) ELSE 0

\* .replace(/\s+/g, '-')
RECURSIVE SpacesToHyphens(_)
SpacesToHyphens(s) ==
    IF s = <<>> THEN <<>>
    ELSE IF IsSpace(Head(s))
         THEN <<"-">> \o SpacesToHyphens(SubSeq(s, SpaceRun(s) + 1, Len(s)))
         ELSE <<Head(s)>> \o SpacesToHyphens(Tail(s))

RECURSIVE HyphenRun(_)
HyphenRun(s) == IF s # <<>> /\ Head(s) = "-" THEN 1 + HyphenRun(Tail(s)) ELSE 0

\* A slip that would leave hyphen runs as they are.
CollapseHyphens_Kept(s) == s

\* .replace(/-+/g, '-')
RECURSIVE CollapseHyphens(_)
CollapseHyphens(s) ==
    IF s = <<>> THEN <<>>
    ELSE IF Head(s) = "-"
         THEN <<"-">> \o CollapseHyphens(SubSeq(s, HyphenRun(s) + 1, Len(s)))
         ELSE <<Head(s)>> \o CollapseHyphens(Tail(s))

\* .replace(/^-|-$/g, ''): one hyphen at the start, one at the end.
TrimHyphens(s) ==
    LET a == IF s # <<>> /\ Head(s) = "-" THEN Tail(s) ELSE s
    IN  IF a # <<>> /\ a[Len(a)] = "-" THEN SubSeq(a, 1, Len(a) - 1) ELSE a

generateSlug(t) ==
    TrimHyphens(CollapseHyphens(SpacesToHyphens(DropSpecial(ToLowerCase(t)))))

\* ------------------------------------- htmlToMarkdown: whitespace at the end
\* Positions of newlines among the first n characters of s.
NewlinesIn(s, n) == {k \in 1..n : s[k] = "\n"}

MaxOf(S) == CHOOSE m \in S : \A k \in S : k <= m

\* .replace(/\n\s*\n\s*\n/g, '\n\n'): a match starts at a newline and, being
\* greedy, runs to the last newline of the whitespace run it starts.
RECURSIVE CollapseNewlines(_)
CollapseNewlines(s) ==
    IF s = <<>> THEN <<>>
    ELSE IF Head(s) = "\n" /\ Cardinality(NewlinesIn(s, SpaceRun(s))) >= 3
         THEN <<"\n", "\n">>
              \o CollapseNewlines(SubSeq(s, MaxOf(NewlinesIn(s, SpaceRun(s))) + 1, Len(s)))
         ELSE <<Head(s)>> \o CollapseNewlines(Tail(s))

\* .replace(/\n\s+/g, '\n'): \s matches newlines too, so the whole whitespace
\* run after a newline goes, further newlines included.
RECURSIVE StripLeading(_)
StripLeading(s) ==
    IF s = <<>> THEN <<>>
    ELSE IF Head(s) = "\n" /\ SpaceRun(Tail(s)) > 0
         THEN <<"\n">> \o StripLeading(SubSeq(s, SpaceRun(s) + 1, Len(s)))
         ELSE <<Head(s)>> \o StripLeading(Tail(s))

\* .replace(/\s+$/gm, ''): a whitespace run is cut up to the end of the text,
\* or else up to the last newline after its first character.
RECURSIVE StripTrailing(_)
StripTrailing(s) ==
    IF s = <<>> THEN <<>>
    ELSE IF ~IsSpace(Head(s)) THEN <<Head(s)>> \o StripTrailing(Tail(s))
    ELSE IF SpaceRun(s) = Len(s) THEN <<>>
    ELSE LET later == NewlinesIn(s, SpaceRun(s)) \ {1}
         IN  IF later # {}
             THEN <<"\n">> \o StripTrailing(SubSeq(s, MaxOf(later) + 1, Len(s)))
             ELSE <<Head(s)>> \o StripTrailing(Tail(s))

RECURSIVE TrimStart(_)
TrimStart(s) == IF s # <<>> /\ IsSpace(Head(s)) THEN TrimStart(Tail(s)) ELSE s

RECURSIVE TrimEnd(_)
TrimEnd(s) ==
    IF s # <<>> /\ IsSpace(s[Len(s)]) THEN TrimEnd(SubSeq(s, 1, Len(s) - 1)) ELSE s

\* .trim()
Trim(s) == TrimEnd(TrimStart(s))

\* Lines 193-196 of htmlToMarkdown.
NormalizeWhitespace(s) == Trim(StripTrailing(StripLeading(CollapseNewlines(s))))

\* ------------------------------------------------------------ the crawl
\* Titles the API serves (the title decides the slug and the file name).
Titles == { <<"B">>, <<"a", "!">> }

Pos == <<ci, si, ai>>

\* constructor: options.maxArticles || 50
EffectiveMaxArticles(opt) == IF opt = 0 THEN DefaultMaxArticles ELSE opt

\* constructor: options.delay || 1000
EffectiveDelay(opt) == IF opt = 0 THEN DefaultDelay ELSE opt

\* An off-by-one cap check.
CapReached_Above == totalArticles > maxArticles

\* if (totalArticles >= this.maxArticles) break;
CapReached == totalArticles >= maxArticles

\* catch { return [] } of the listing fetchers; response.data.x || []
ListingResult(ok, n) == IF ok THEN n ELSE 0

\* What the bound leaves for the next listing answer.
NodesLeft == MaxNodes - listed

\* The option objects the command-line scripts construct the scraper with:
\* maxArticles from the environment and no delay, or the fixed pair.
CliOptions ==
    {[maxArticles |-> m, delay |-> 0] : m \in 0..MaxCap}
        \cup {[maxArticles |-> CliMaxArticles, delay |-> CliDelay]}

\* `${slug}.md`
Filename(sl) == sl \o <<".", "m", "d">>

Init ==
    /\ pc = "start"
    /\ \E o \in CliOptions : optMaxArticles = o.maxArticles /\ optDelay = o.delay
    /\ maxArticles = EffectiveMaxArticles(optMaxArticles)
    /\ delay = EffectiveDelay(optDelay)
    /\ nCats = 0 /\ nSecs = 0 /\ nArts = 0
    /\ ci = 0 /\ si = 0 /\ ai = 0
    /\ fullArticle = NoArticle
    /\ savedArticles = <<>>
    /\ totalArticles = 0
    /\ files = <<>>
    /\ indexFile = [written |-> FALSE, entries |-> <<>>]
    /\ exitCode = -1
    /\ log = <<>>
    /\ sectionListings = {}
    /\ articleListings = {}
    /\ visits = {}
    /\ listed = 0
    /\ fnPc = "off" /\ title = <<>> /\ slug = <<>> /\ text = <<>> /\ markdown = <<>>

\* An ensureOutputDir that only logs the error.
EnsureOutputDirThrows_Swallowed(ok) == FALSE

\* ensureOutputDir: rethrows what mkdir throws.
EnsureOutputDirThrows(ok) == ~ok

\* scrapeAllArticles, line 272: await this.ensureOutputDir()
EnsureOutputDir ==
    /\ pc = "start"
    /\ \E ok \in BOOLEAN :
        /\ log' = Append(log, Event("mkdir", NoPos, ok, 0))
        /\ pc' = IF EnsureOutputDirThrows(ok) THEN "catch" ELSE "fetchCategories"
    /\ UNCHANGED <<optMaxArticles, optDelay, maxArticles, delay, nCats, nSecs, nArts,
                   ci, si, ai, fullArticle, savedArticles, totalArticles, files,
                   indexFile, exitCode, sectionListings, articleListings, visits, listed, fnVars>>

\* fetchCategories: catch { return [] }
FetchCategoriesThrows(ok) == FALSE

\* scrapeAllArticles, lines 274-281: fetchCategories and the empty-answer return
FetchCategories ==
    /\ pc = "fetchCategories"
    /\ \E ok \in BOOLEAN, n \in 0..Min(MaxCats, MaxNodes) :
        /\ ~ok => n = 0
        /\ log' = Append(log, Event("categories", NoPos, ok, 0))
        /\ nCats' = ListingResult(ok, n)
        /\ listed' = listed + ListingResult(ok, n)
        /\ pc' = IF FetchCategoriesThrows(ok) THEN "catch"
                 ELSE IF ListingResult(ok, n) = 0 THEN "done" ELSE "catLoop"
    /\ UNCHANGED <<optMaxArticles, optDelay, maxArticles, delay, nSecs, nArts,
                   ci, si, ai, fullArticle, savedArticles, totalArticles, files,
                   indexFile, exitCode, sectionListings, articleListings, visits, fnVars>>

\* fetchSections: catch { return [] }
FetchSectionsThrows(ok) == FALSE

\* for (const category of categories): the cap check passes, fetchSections
CategoryNext ==
    /\ pc = "catLoop"
    /\ ci < nCats
    /\ ~CapReached
    /\ \E ok \in BOOLEAN, n \in 0..NodesLeft :
        /\ ~ok => n = 0
        /\ log' = Append(log, Event("sections", <<ci + 1, 0, 0>>, ok, 0))
        /\ sectionListings' = sectionListings \cup {[c |-> ci + 1, ok |-> ok, n |-> n]}
        /\ nSecs' = ListingResult(ok, n)
        /\ listed' = listed + ListingResult(ok, n)
        /\ pc' = IF FetchSectionsThrows(ok) THEN "catch" ELSE "secLoop"
    /\ ci' = ci + 1
    /\ si' = 0
    /\ UNCHANGED <<optMaxArticles, optDelay, maxArticles, delay, nCats, nArts,
                   ai, fullArticle, savedArticles, totalArticles, files,
                   indexFile, exitCode, articleListings, visits, fnVars>>

\* the category loop ends (no category left, or break at the cap): return
CategoryExit ==
    /\ pc = "catLoop"
    /\ (ci >= nCats \/ CapReached)
    /\ pc' = "done"
    /\ UNCHANGED <<optMaxArticles, optDelay, maxArticles, delay, nCats, nSecs, nArts,
                   ci, si, ai, fullArticle, savedArticles, totalArticles, files,
                   indexFile, exitCode, log, sectionListings, articleListings, visits,
                   listed, fnVars>>

\* A fetchArticles without its try/catch.
FetchArticlesThrows_NoCatch(ok) == ~ok

\* fetchArticles: catch { return [] }
FetchArticlesThrows(ok) == FALSE

\* for (const section of sections): the cap check passes, fetchArticles
SectionNext ==
    /\ pc = "secLoop"
    /\ si < nSecs
    /\ ~CapReached
    /\ \E ok \in BOOLEAN, n \in 0..NodesLeft :
        /\ ~ok => n = 0
        /\ log' = Append(log, Event("articles", <<ci, si + 1, 0>>, ok, 0))
        /\ articleListings' =
               articleListings \cup {[c |-> ci, s |-> si + 1, ok |-> ok, n |-> n]}
        /\ nArts' = ListingResult(ok, n)
        /\ listed' = listed + ListingResult(ok, n)
        /\ pc' = IF FetchArticlesThrows(ok) THEN "catch" ELSE "artLoop"
    /\ si' = si + 1
    /\ ai' = 0
    /\ UNCHANGED <<optMaxArticles, optDelay, maxArticles, delay, nCats, nSecs,
                   ci, fullArticle, savedArticles, totalArticles, files,
                   indexFile, exitCode, sectionListings, visits, fnVars>>

\* the section loop ends (no section left, or break at the cap)
SectionExit ==
    /\ pc = "secLoop"
    /\ (si >= nSecs \/ CapReached)
    /\ pc' = "catLoop"
    /\ UNCHANGED <<optMaxArticles, optDelay, maxArticles, delay, nCats, nSecs, nArts,
                   ci, si, ai, fullArticle, savedArticles, totalArticles, files,
                   indexFile, exitCode, log, sectionListings, articleListings, visits,
                   listed, fnVars>>

\* A fetchArticleContent that goes straight to the GET.
SleepEvents_None(pos) == <<>>

\* fetchArticleContent, line 101: await this.sleep(this.delay)
SleepEvents(pos) == <<Event("sleep", pos, TRUE, delay)>>

\* for (const articleSummary of articles): the cap check passes;
\* fetchArticleContent begins with the delay
ArticleNext ==
    /\ pc = "artLoop"
    /\ ai < nArts
    /\ ~CapReached
    /\ ai' = ai + 1
    /\ log' = log \o SleepEvents(<<ci, si, ai + 1>>)
    /\ pc' = "get"
    /\ UNCHANGED <<optMaxArticles, optDelay, maxArticles, delay, nCats, nSecs, nArts,
                   ci, si, fullArticle, savedArticles, totalArticles, files,
                   indexFile, exitCode, sectionListings, articleListings, visits, listed, fnVars>>

\* the article loop ends (no summary left, or break at the cap)
ArticleExit ==
    /\ pc = "artLoop"
    /\ (ai >= nArts \/ CapReached)
    /\ pc' = "secLoop"
    /\ UNCHANGED <<optMaxArticles, optDelay, maxArticles, delay, nCats, nSecs, nArts,
                   ci, si, ai, fullArticle, savedArticles, totalArticles, files,
                   indexFile, exitCode, log, sectionListings, articleListings, visits,
                   listed, fnVars>>

\* A fetchArticleContent without its try/catch.
FetchArticleThrows_NoCatch(ok) == ~ok

\* fetchArticleContent: catch { return null }
FetchArticleThrows(ok) == FALSE

\* fetchArticleContent after the delay: the GET, and `if (fullArticle)`
GetArticle ==
    /\ pc = "get"
    /\ \E ok \in BOOLEAN, t \in Titles :
        /\ ~ok => t = CHOOSE x \in Titles : TRUE
        /\ log' = Append(log, Event("article", Pos, ok, 0))
        /\ IF ok
           THEN /\ fullArticle' = [title |-> t, pos |-> Pos]
                /\ pc' = "save"
                /\ visits' = visits
           ELSE /\ fullArticle' = NoArticle
                /\ pc' = IF FetchArticleThrows(ok) THEN "catch" ELSE "artLoop"
                /\ visits' = visits \cup {[pos |-> Pos, fetched |-> FALSE, written |-> FALSE]}
    /\ UNCHANGED <<optMaxArticles, optDelay, maxArticles, delay, nCats, nSecs, nArts,
                   ci, si, ai, savedArticles, totalArticles, files,
                   indexFile, exitCode, sectionListings, articleListings, listed, fnVars>>

\* A walker that records the article whatever saveArticleAsMarkdown returned.
SaveResult_Always(article, ok) ==
    << [filename |-> Filename(generateSlug(article.title)),
        slug |-> generateSlug(article.title),
        title |-> article.title,
        pos |-> article.pos] >>

\* saveArticleAsMarkdown: the ScrapeResult of a write, null when it failed
SaveResult(article, ok) ==
    IF ok
    THEN << [filename |-> Filename(generateSlug(article.title)),
             slug |-> generateSlug(article.title),
             title |-> article.title,
             pos |-> article.pos] >>
    ELSE <<>>

\* A walker that puts each new result in front of the earlier ones.
Pushed_InFront(results, saved) == saved \o results

\* if (saved) savedArticles.push(saved)
Pushed(results, saved) == results \o saved

\* A walker that counts the article whether or not it was saved.
Counted_Always(total, saved) == total + 1

\* if (saved) totalArticles++
Counted(total, saved) == total + Len(saved)

\* A writer that leaves a document that is already there as it is.
Written_KeepExisting(dir, fn, content) ==
    [f \in (DOMAIN dir) \cup {fn} |-> IF f \in DOMAIN dir THEN dir[f] ELSE content]

\* await fs.writeFile(filepath, fullContent, 'utf8'): creates or overwrites
Written(dir, fn, content) ==
    [f \in (DOMAIN dir) \cup {fn} |-> IF f = fn THEN content ELSE dir[f]]

\* A saveArticleAsMarkdown without its try/catch.
SaveThrows_NoCatch(ok) == ~ok

\* saveArticleAsMarkdown: catch { return null }
SaveThrows(ok) == FALSE

\* saveArticleAsMarkdown and lines 306-310: push and count what was saved
SaveArticle ==
    /\ pc = "save"
    /\ \E ok \in BOOLEAN :
        /\ log' = Append(log, Event("write", Pos, ok, 0))
        /\ visits' = visits \cup {[pos |-> Pos, fetched |-> TRUE, written |-> ok]}
        /\ savedArticles' = Pushed(savedArticles, SaveResult(fullArticle, ok))
        /\ totalArticles' = Counted(totalArticles, SaveResult(fullArticle, ok))
        /\ files' = IF ok
                    THEN Written(files, Filename(generateSlug(fullArticle.title)),
                                 fullArticle)
                    ELSE files
        /\ pc' = IF SaveThrows(ok) THEN "catch" ELSE "artLoop"
    /\ fullArticle' = NoArticle
    /\ UNCHANGED <<optMaxArticles, optDelay, maxArticles, delay, nCats, nSecs, nArts,
                   ci, si, ai, indexFile, exitCode, sectionListings, articleListings,
                   listed, fnVars>>

\* Collation order of the modelled characters (blank, punctuation, digits,
\* letters; letter case does not decide at the first level).
Collation == <<" ", "-", "!", "0", "1", "a", "b">>

Weight(c) == CHOOSE i \in DOMAIN Collation : Collation[i] = ToLowerChar(c)

\* a.title.localeCompare(b.title) < 0
RECURSIVE TitleBefore(_, _)
TitleBefore(a, b) ==
    IF b = <<>> THEN FALSE
    ELSE IF a = <<>> THEN TRUE
    ELSE IF Weight(Head(a)) # Weight(Head(b)) THEN Weight(Head(a)) < Weight(Head(b))
    ELSE TitleBefore(Tail(a), Tail(b))

\* Array.prototype.sort with that comparison (stable): the place of rs[i]
\* is one more than the number of entries that must come before it.
SortByTitle(rs) ==
    LET before(i) == {j \in DOMAIN rs :
                         \/ TitleBefore(rs[j].title, rs[i].title)
                         \/ (j < i /\ ~TitleBefore(rs[i].title, rs[j].title))}
    IN  [k \in DOMAIN rs |->
            rs[CHOOSE i \in DOMAIN rs : Cardinality(before(i)) = k - 1]]

\* command line, lines 35-40: scrapeAllArticles returned; generateIndex sorts
\* the result sequence in place and writes README.md; the run ends
GenerateIndex ==
    /\ pc = "done"
    /\ savedArticles' = SortByTitle(savedArticles)
    /\ \E ok \in BOOLEAN :
        /\ log' = Append(log, Event("index", NoPos, ok, 0))
        /\ indexFile' = IF ok
                        THEN [written |-> TRUE,
                              entries |-> [i \in 1..Len(savedArticles) |->
                                              SortByTitle(savedArticles)[i].filename]]
                        ELSE indexFile
        /\ pc' = IF ok THEN "exit" ELSE "catch"
        /\ exitCode' = IF ok THEN 0 ELSE exitCode
    /\ UNCHANGED <<optMaxArticles, optDelay, maxArticles, delay, nCats, nSecs, nArts,
                   ci, si, ai, fullArticle, totalArticles, files,
                   sectionListings, articleListings, visits, listed, fnVars>>

\* process.exit(1) of the catch block
CatchExitCode == 1

\* command line, lines 42-45: catch (error) { ...; process.exit(1) }
CliCatch ==
    /\ pc = "catch"
    /\ exitCode' = CatchExitCode
    /\ pc' = "exit"
    /\ UNCHANGED <<optMaxArticles, optDelay, maxArticles, delay, nCats, nSecs, nArts,
                   ci, si, ai, fullArticle, savedArticles, totalArticles, files,
                   indexFile, log, sectionListings, articleListings, visits, listed, fnVars>>

Next ==
    \/ EnsureOutputDir
    \/ FetchCategories
    \/ CategoryNext
    \/ CategoryExit
    \/ SectionNext
    \/ SectionExit
    \/ ArticleNext
    \/ ArticleExit
    \/ GetArticle
    \/ SaveArticle
    \/ GenerateIndex
    \/ CliCatch

Spec == Init /\ [][Next]_vars

\* The event loop runs every continuation that is ready: timers fire and
\* requests settle (the HTTP client has a 30 s timeout).
FairSpec == Spec /\ WF_vars(Next)

\* ------------------------------------------------- pure-function runs
CrawlOff ==
    /\ pc = "off"
    /\ optMaxArticles = 0 /\ optDelay = 0
    /\ maxArticles = DefaultMaxArticles /\ delay = DefaultDelay
    /\ nCats = 0 /\ nSecs = 0 /\ nArts = 0
    /\ ci = 0 /\ si = 0 /\ ai = 0
    /\ fullArticle = NoArticle
    /\ savedArticles = <<>>
    /\ totalArticles = 0
    /\ files = <<>>
    /\ indexFile = [written |-> FALSE, entries |-> <<>>]
    /\ exitCode = -1
    /\ log = <<>>
    /\ sectionListings = {}
    /\ articleListings = {}
    /\ visits = {}
    /\ listed = 0

SlugAlphabet == {"a", "B", "1", " ", "-", "!"}

HelloWorld == <<"H","e","l","l","o",","," ","W","o","r","l","d","!">>
SpacedAB == <<" "," ","A","-","-","B"," "," ">>

SlugTitles == SeqsUpTo(SlugAlphabet, MaxTitleLen) \cup {HelloWorld, SpacedAB}

SlugInit ==
    /\ CrawlOff
    /\ fnPc = "slugIn"
    /\ title \in SlugTitles
    /\ slug = <<>> /\ text = <<>> /\ markdown = <<>>

\* one call of generateSlug(title)
SlugCall ==
    /\ fnPc = "slugIn"
    /\ slug' = generateSlug(title)
    /\ fnPc' = "slugOut"
    /\ UNCHANGED <<crawlVars, title, text, markdown>>

SlugSpec == SlugInit /\ [][SlugCall]_vars

TextAlphabet == {"a", " ", "\n"}

NormInit ==
    /\ CrawlOff
    /\ fnPc = "normIn"
    /\ text \in SeqsUpTo(TextAlphabet, MaxTextLen)
    /\ markdown = <<>> /\ title = <<>> /\ slug = <<>>

\* the text reaches line 193 of htmlToMarkdown and is returned
NormCall ==
    /\ fnPc = "normIn"
    /\ markdown' = NormalizeWhitespace(text)
    /\ fnPc' = "normOut"
    /\ UNCHANGED <<crawlVars, title, slug, text>>

NormSpec == NormInit /\ [][NormCall]_vars

\* ================================================================ claims
\* Positions the result sequence holds.
SavedPos == {savedArticles[i].pos : i \in DOMAIN savedArticles}

LogIdx(op) == {i \in DOMAIN log : log[i].op = op}

MkdirFailed == log # <<>> /\ log[1].op = "mkdir" /\ ~log[1].ok

\* C1: whatever cap N is passed as maxArticles, the result sequence never
\* holds more than N entries.
C1_ResultsWithinPassedCap == Len(savedArticles) <= optMaxArticles

\* C2: once the running total has reached the cap, the walker issues no
\* request, delay or write any more and records nothing: every step it takes
\* only leaves a loop (article loop, then section loop, then category loop)
\* on its way to Done.
C2_NoRequestOnceCapReached ==
    [][ (pc \in {"artLoop", "secLoop", "catLoop"} /\ totalArticles >= maxArticles)
          => /\ log' = log
             /\ savedArticles' = savedArticles
             /\ <<ci, si, ai>>' = <<ci, si, ai>>
             /\ pc' = (CASE pc = "artLoop" -> "secLoop"
                         [] pc = "secLoop" -> "catLoop"
                         [] pc = "catLoop" -> "done") ]_vars

\* C2 witness: the crawl is Done at the cap with a summary, a section and a
\* category left untouched.
C2_Witness ==
    /\ pc = "done"
    /\ totalArticles >= maxArticles
    /\ ai < nArts /\ si < nSecs /\ ci < nCats

\* C3: a visited summary has a result if and only if its detail fetch
\* returned an article and the write succeeded; every result belongs to a
\* visited summary, and to one only.
C3_ResultIffFetchedAndWritten ==
    /\ \A v \in visits : (v.pos \in SavedPos) <=> (v.fetched /\ v.written)
    /\ \A p \in SavedPos : \E v \in visits : v.pos = p
    /\ Cardinality(SavedPos) = Len(savedArticles)

\* C3 witness: a returned crawl with one failed fetch, one failed write and
\* one saved article.
C3_Witness ==
    /\ pc = "done"
    /\ \E v \in visits : ~v.fetched
    /\ \E v \in visits : v.fetched /\ ~v.written
    /\ \E v \in visits : v.fetched /\ v.written /\ v.pos \in SavedPos

\* Every listed category, section and summary was processed.
AllProcessed ==
    /\ \A c \in 1..nCats : \E l \in sectionListings : l.c = c
    /\ \A l \in sectionListings : \A k \in 1..ListingResult(l.ok, l.n) :
          \E a \in articleListings : a.c = l.c /\ a.s = k
    /\ \A a \in articleListings : \A k \in 1..ListingResult(a.ok, a.n) :
          \E v \in visits : v.pos = <<a.c, a.s, k>>

\* C4: a failed article-summary listing throws nothing and leaves its
\* section without any visit or result; when the crawl returns below the
\* cap, every category, section and summary listed was still processed and
\* every article fetched and written is in the result sequence.
C4_ListingFailureIsolated ==
    /\ \A f \in articleListings : ~f.ok =>
          /\ \A v \in visits : <<v.pos[1], v.pos[2]>> # <<f.c, f.s>>
          /\ \A p \in SavedPos : <<p[1], p[2]>> # <<f.c, f.s>>
    /\ pc = "catch" => log[Len(log)].op \in {"mkdir", "index"}
    /\ (pc = "done" /\ totalArticles < maxArticles) =>
          /\ AllProcessed
          /\ \A v \in visits : (v.fetched /\ v.written) => v.pos \in SavedPos

\* C4 witness: the first section's listing failed; its sibling gave a result
\* and the summaries of a section of the next category were listed.
C4_Witness ==
    /\ pc = "done"
    /\ \E f \in articleListings : ~f.ok /\ f.c = 1 /\ f.s = 1
    /\ \E p \in SavedPos : p[1] = 1 /\ p[2] = 2
    /\ \E a \in articleListings : a.c = 2 /\ a.ok

\* C5: every article-detail GET comes right after one delay of this.delay
\* taken for the same summary, every delay is followed by that GET and by
\* nothing else, and outside fetchArticleContent the delays taken are as
\* many as the detail fetches attempted.
C5_DelayBeforeEachDetailFetch ==
    /\ \A i \in LogIdx("article") :
          /\ i > 1
          /\ log[i - 1].op = "sleep"
          /\ log[i - 1].pos = log[i].pos
          /\ log[i - 1].ms = delay
    /\ \A i \in LogIdx("sleep") :
          IF i < Len(log) THEN log[i + 1].op = "article" ELSE pc = "get"
    /\ pc # "get" => Cardinality(LogIdx("sleep")) = Cardinality(LogIdx("article"))
    /\ pc = "get" => log # <<>> /\ log[Len(log)].op = "sleep"

\* C5 witness: a returned crawl that listed sections and summaries and
\* fetched two articles.
C5_Witness ==
    /\ pc = "done"
    /\ Cardinality(LogIdx("article")) >= 2
    /\ LogIdx("sections") # {} /\ LogIdx("articles") # {}

\* Number of summaries the listing of section <<c, s>> returned.
ListedIn(c, s) ==
    LET a == CHOOSE x \in articleListings : x.c = c /\ x.s = s
    IN  ListingResult(a.ok, a.n)

\* C6 (the failing step): a failed write throws nothing and leaves the
\* result sequence, the running total and the loop position as they are.
C6_FailedWriteStep ==
    (pc = "save" /\ log' # log /\ ~log'[Len(log')].ok)
        => /\ savedArticles' = savedArticles
           /\ totalArticles' = totalArticles
           /\ pc' = "artLoop"
           /\ <<ci, si, ai, nArts>>' = <<ci, si, ai, nArts>>

\* C6 (what follows): the summary of a failed write has no result, and the
\* next thing the walker does is fetch the next summary of the same section
\* when there is one.
C6_AfterFailedWrite ==
    \A i \in LogIdx("write") : ~log[i].ok =>
        /\ log[i].pos \notin SavedPos
        /\ (i < Len(log) /\ log[i].pos[3] < ListedIn(log[i].pos[1], log[i].pos[2]))
              => /\ log[i + 1].op = "sleep"
                 /\ log[i + 1].pos = <<log[i].pos[1], log[i].pos[2], log[i].pos[3] + 1>>

\* C6: when the write fails, saveArticleAsMarkdown returns null without
\* throwing, the result sequence and the running total stay as they are, and
\* the walker goes on with the next summary of the same section.
C6_WriteFailureSkipsArticle ==
    [][C6_FailedWriteStep]_vars /\ []C6_AfterFailedWrite

\* C6 witness: a write failed and the next summary of the same section was
\* fetched and saved.
C6_Witness ==
    \E i \in LogIdx("write") :
        /\ ~log[i].ok
        /\ <<log[i].pos[1], log[i].pos[2], log[i].pos[3] + 1>> \in SavedPos

\* C7: a crawl whose output directory was created reaches Done (returns its
\* result sequence), whatever fails on the way.
C7_CrawlReachesDone == (pc = "fetchCategories") ~> (pc = "done")

\* C7 witness: a returned crawl in which a section listing, a summary
\* listing, a detail fetch and a write failed.
C7_Witness ==
    /\ pc = "done"
    /\ \E l \in sectionListings : ~l.ok
    /\ \E a \in articleListings : ~a.ok
    /\ \E v \in visits : ~v.fetched
    /\ \E v \in visits : v.fetched /\ ~v.written

\* C8: when creating the output directory fails, nothing else is requested
\* or written, the error reaches the command line's catch block and the run
\* ends with exit status 1.
C8_MkdirFailureIsFatal ==
    MkdirFailed =>
        /\ Len(log) = 1
        /\ files = <<>> /\ ~indexFile.written
        /\ savedArticles = <<>>
        /\ pc \in {"catch", "exit"}
        /\ pc = "exit" => exitCode = 1

\* C8 witness: the run has ended after a failed mkdir.
C8_Witness == MkdirFailed /\ pc = "exit" /\ exitCode = 1

IsAlnum(c) == c \in Range(LowerCase) \/ c \in Digits

NotHyphen(c) == c # "-"

\* C9: a slug holds only characters of [a-z0-9-], has no two hyphens in a
\* row and no hyphen at either end; its letters and digits are those of the
\* lowercased title, in order; "Hello, World!" gives "hello-world" and
\* "  A--B  " gives "a-b".
C9_SlugShape ==
    fnPc = "slugOut" =>
        /\ \A i \in DOMAIN slug : IsAlnum(slug[i]) \/ slug[i] = "-"
        /\ \A i \in 1..(Len(slug) - 1) : ~(slug[i] = "-" /\ slug[i + 1] = "-")
        /\ slug # <<>> => (slug[1] # "-" /\ slug[Len(slug)] # "-")
        /\ SelectSeq(slug, NotHyphen) = SelectSeq(ToLowerCase(title), IsAlnum)
        /\ title = HelloWorld =>
              slug = <<"h","e","l","l","o","-","w","o","r","l","d">>
        /\ title = SpacedAB => slug = <<"a","-","b">>

\* C9 witness: "  A--B  " was slugified.
C9_Witness == fnPc = "slugOut" /\ title = SpacedAB /\ slug = <<"a","-","b">>

\* Two non-blank lines with four blank lines between them.
FourBlankLines == <<"a", "\n", "\n", "\n", "\n", "\n", "a">>

\* C10: a text with four blank lines between two non-blank lines leaves the
\* whitespace normalisation with exactly one blank line (two newlines)
\* between them.
C10_FourBlankLinesLeaveOne ==
    (fnPc = "normOut" /\ text = FourBlankLines)
        => markdown = <<"a", "\n", "\n", "a">>

\* scrapeAllArticles is running or has just returned (generateIndex, which
\* sorts the returned array in place, has not run).
InCrawl == pc \in {"fetchCategories", "catLoop", "secLoop", "artLoop", "get", "save", "done"}

\* p comes before q in (category, section, article) order.
PosBefore(p, q) ==
    \/ p[1] < q[1]
    \/ p[1] = q[1] /\ p[2] < q[2]
    \/ p[1] = q[1] /\ p[2] = q[2] /\ p[3] < q[3]

\* The requests, delays and writes of the crawl itself.
CrawlIdx == {i \in DOMAIN log : log[i].op \notin {"mkdir", "index"}}

IsOkWrite(e) == e.op = "write" /\ e.ok

\* C11 (requests): the log follows listing order: later events never concern
\* an earlier category, section or summary, no listing or summary is
\* requested twice, and none is skipped.
C11_RequestsInListingOrder ==
    /\ \A i, j \in CrawlIdx : i < j =>
          /\ ~PosBefore(log[j].pos, log[i].pos)
          /\ log[i].op = log[j].op => log[i].pos # log[j].pos
    /\ \A i \in LogIdx("sections") :
          /\ log[i].pos[1] <= nCats
          /\ log[i].pos[1] > 1 =>
                \E j \in LogIdx("sections") : j < i /\ log[j].pos[1] = log[i].pos[1] - 1
    /\ \A i \in LogIdx("articles") :
          /\ \E j \in LogIdx("sections") : j < i /\ log[j].pos[1] = log[i].pos[1]
          /\ log[i].pos[2] > 1 =>
                \E j \in LogIdx("articles") :
                    j < i /\ log[j].pos = <<log[i].pos[1], log[i].pos[2] - 1, 0>>
    /\ \A i \in LogIdx("sleep") :
          /\ log[i].pos[3] <= ListedIn(log[i].pos[1], log[i].pos[2])
          /\ log[i].pos[3] > 1 =>
                \E j \in LogIdx("sleep") :
                    j < i /\ log[j].pos =
                                 <<log[i].pos[1], log[i].pos[2], log[i].pos[3] - 1>>

\* C11 (results): until generateIndex runs, the result sequence is the
\* successful writes in the order they were made, hence in strictly
\* increasing (category, section, article) order.
C11_ResultsInListingOrder ==
    InCrawl =>
        /\ \A i, j \in DOMAIN savedArticles :
              i < j => PosBefore(savedArticles[i].pos, savedArticles[j].pos)
        /\ Len(savedArticles) = Len(SelectSeq(log, IsOkWrite))
        /\ \A i \in DOMAIN savedArticles :
              savedArticles[i].pos = SelectSeq(log, IsOkWrite)[i].pos

\* C11: the crawl is sequential and follows listing order, and the result
\* sequence it returns is ordered by (category, section, article) position
\* and is determined by the requests made and the answers they got.
C11_SequentialListingOrder == C11_RequestsInListingOrder /\ C11_ResultsInListingOrder

\* C11 witness: a returned crawl with a result from each of two categories.
C11_Witness ==
    /\ pc = "done"
    /\ Len(savedArticles) >= 2
    /\ savedArticles[1].pos[1] = 1
    /\ savedArticles[2].pos[1] = 2

\* Places in the result sequence of the results written to file fn.
WritesTo(fn) == {i \in DOMAIN savedArticles : savedArticles[i].filename = fn}

C13_TotalCountsOnlySavedArticles ==
    pc \in {"artLoop", "secLoop", "catLoop", "done"} =>
        /\ totalArticles = Len(savedArticles)
        /\ Cardinality(LogIdx("article")) =
              Len(savedArticles)
              + Cardinality({i \in LogIdx("article") : ~log[i].ok})
              + Cardinality({i \in LogIdx("write") : ~log[i].ok})
        /\ totalArticles <= maxArticles

\* C13 witness: at an iteration boundary after a failed fetch and a failed
\* write, with one article saved and the cap not yet reached.
C13_Witness ==
    /\ pc = "artLoop"
    /\ \E i \in LogIdx("article") : ~log[i].ok
    /\ \E i \in LogIdx("write") : ~log[i].ok
    /\ totalArticles = 1
    /\ totalArticles < maxArticles

====
